---- MODULE Spec2Model ----
(***************************************************************************)
(* Model of the FastAPI example service: the in-memory TaskStorage and     *)
(* JobStorage of app/storage.py, the request handlers of app/main.py that  *)
(* use them, and the background runner process_job_background.             *)
(*                                                                         *)
(* Python values are modelled as follows.                                  *)
(*   Optional[X]   the empty tuple for None, the 1-tuple <<x>> for x       *)
(*   dict          a sequence of [key, value] entries in insertion order   *)
(*                 (Python dicts keep insertion order; assigning to an     *)
(*                 existing key keeps its position, del closes the gap)    *)
(*   datetime.now  the value of the clock variable now, which only moves   *)
(*                 forward                                                 *)
(*   objects       ProcessJob instances live in job_objs and the jobs dict *)
(*                 holds references (indices) to them, because the runner  *)
(*                 mutates the instance it looked up                       *)
(***************************************************************************)
EXTENDS Integers, Sequences, FiniteSets, TLC

VARIABLES tasks, next_id, jobs, job_objs, runners, now, resp, issued, deleted

task_vars == <<tasks, next_id>>
job_vars == <<jobs, job_objs, runners>>
hist_vars == <<issued, deleted>>
vars == <<tasks, next_id, jobs, job_objs, runners, now, resp, issued, deleted>>

(* ------------------------------ bounds --------------------------------- *)

\* createTask is modelled while next_id <= MaxTasks
MaxTasks == 2
\* the clock runs from 0 to MaxTime
MaxTime == 1
\* start_background_job is modelled for at most MaxJobs submissions
MaxJobs == 2

(* --------------------------- input domains ----------------------------- *)

None == <<>>
Some(v) == <<v>>

\* models.py: pattern ^(pending|in_progress|completed)$
TaskStatuses == {"pending", "in_progress", "completed"}
\* validated titles (1..200 characters)
Titles == {"T", "U"}
\* validated descriptions (at most 1000 characters)
Descriptions == {"d"}
\* the status_filter query parameter is any string, or missing
StatusFilters == TaskStatuses \cup {"", "bogus"}
\* the path parameter task_id: ids the store may hold and one it never holds
TaskIds == 1..(MaxTasks + 1)

Opt(S) == {None} \cup {Some(v) : v \in S}

\* values of uuid.uuid4().hex[:8]: 8 hexadecimal digits, nothing excludes a repeat
JobTokens == {"0000000a", "0000000b"}
\* validated payloads (non-empty lists of strings)
JobData == {<<"a", "b">>, <<"b", "a">>}

(* ------------------------------ dict ----------------------------------- *)

\* position of key k in dict d, 0 when absent (keys are unique)
DictIndex(d, k) ==
    IF \E i \in 1..Len(d) : d[i].key = k
    THEN CHOOSE i \in 1..Len(d) : d[i].key = k
    ELSE 0

DictHas(d, k) == DictIndex(d, k) # 0

\* d.get(k): Optional value
DictGet(d, k) == IF DictHas(d, k) THEN Some(d[DictIndex(d, k)].value) ELSE None

\* d[k] = v
DictSet(d, k, v) ==
    IF DictHas(d, k)
    THEN [d EXCEPT ![DictIndex(d, k)] = [key |-> k, value |-> v]]
    ELSE Append(d, [key |-> k, value |-> v])

\* del d[k]
DictDel(d, k) ==
    LET i == DictIndex(d, k)
    IN  SubSeq(d, 1, i - 1) \o SubSeq(d, i + 1, Len(d))

\* list(d.values())
DictValues(d) == [i \in 1..Len(d) |-> d[i].value]

DictKeys(d) == {d[i].key : i \in 1..Len(d)}

RECURSIVE SelectList(_, _)
\* [x for x in xs if x.status == status]
SelectList(xs, status) ==
    IF xs = <<>> THEN <<>>
    ELSE IF Head(xs).status = status
         THEN <<Head(xs)>> \o SelectList(Tail(xs), status)
         ELSE SelectList(Tail(xs), status)

(* --------------------------- TaskStorage ------------------------------- *)
\* Each operation takes the storage st = [tasks, next_id] and returns
\* [st |-> the storage afterwards, ret |-> the returned value].

TaskStorage_init == [tasks |-> <<>>, next_id |-> 1]

\* a create that derives the id from the number of stored tasks
TaskStorage_create_count_id(st, title, description, status, t) ==
    LET id == Len(st.tasks) + 1
        task == [id |-> id, title |-> title, description |-> description,
                 status |-> status, created_at |-> t, updated_at |-> t]
    IN  [st  |-> [tasks   |-> DictSet(st.tasks, id, task),
                  next_id |-> st.next_id + 1],
         ret |-> task]

TaskStorage_create(st, title, description, status, t) ==
    LET task == [id |-> st.next_id, title |-> title, description |-> description,
                 status |-> status, created_at |-> t, updated_at |-> t]
    IN  [st  |-> [tasks   |-> DictSet(st.tasks, st.next_id, task),
                  next_id |-> st.next_id + 1],
         ret |-> task]

TaskStorage_get(st, task_id) == DictGet(st.tasks, task_id)

TaskStorage_get_all(st, status) ==
    IF status # None /\ status # Some("")
    THEN SelectList(DictValues(st.tasks), status[1])
    ELSE DictValues(st.tasks)

\* an update that assigns description without the "is not None" test
TaskStorage_update_blank_description(st, task_id, title, description, status, t) ==
    LET found == DictGet(st.tasks, task_id)
    IN  IF found = None THEN [st |-> st, ret |-> None]
        ELSE LET task == found[1]
                 t1 == IF title # None THEN [task EXCEPT !.title = title[1]] ELSE task
                 t2 == [t1 EXCEPT !.description = description]
                 t3 == IF status # None THEN [t2 EXCEPT !.status = status[1]] ELSE t2
                 t4 == [t3 EXCEPT !.updated_at = t]
             IN  [st  |-> [st EXCEPT !.tasks = DictSet(st.tasks, task_id, t4)],
                  ret |-> Some(t4)]

\* an update that stores the task by removing and re-inserting its entry
TaskStorage_update_reinsert(st, task_id, title, description, status, t) ==
    LET found == DictGet(st.tasks, task_id)
    IN  IF found = None THEN [st |-> st, ret |-> None]
        ELSE LET task == found[1]
                 t1 == IF title # None THEN [task EXCEPT !.title = title[1]] ELSE task
                 t2 == IF description # None
                       THEN [t1 EXCEPT !.description = description] ELSE t1
                 t3 == IF status # None THEN [t2 EXCEPT !.status = status[1]] ELSE t2
                 t4 == [t3 EXCEPT !.updated_at = t]
             IN  [st  |-> [st EXCEPT !.tasks =
                               DictSet(DictDel(st.tasks, task_id), task_id, t4)],
                  ret |-> Some(t4)]

TaskStorage_update(st, task_id, title, description, status, t) ==
    LET found == DictGet(st.tasks, task_id)
    IN  IF found = None THEN [st |-> st, ret |-> None]
        ELSE LET task == found[1]
                 t1 == IF title # None THEN [task EXCEPT !.title = title[1]] ELSE task
                 t2 == IF description # None
                       THEN [t1 EXCEPT !.description = description] ELSE t1
                 t3 == IF status # None THEN [t2 EXCEPT !.status = status[1]] ELSE t2
                 t4 == [t3 EXCEPT !.updated_at = t]
             IN  [st  |-> [st EXCEPT !.tasks = DictSet(st.tasks, task_id, t4)],
                  ret |-> Some(t4)]

\* a delete that pops with a default and always reports success
TaskStorage_delete_always_true(st, task_id) ==
    IF DictHas(st.tasks, task_id)
    THEN [st |-> [st EXCEPT !.tasks = DictDel(st.tasks, task_id)], ret |-> TRUE]
    ELSE [st |-> st, ret |-> TRUE]

TaskStorage_delete(st, task_id) ==
    IF DictHas(st.tasks, task_id)
    THEN [st |-> [st EXCEPT !.tasks = DictDel(st.tasks, task_id)], ret |-> TRUE]
    ELSE [st |-> st, ret |-> FALSE]

(* ---------------------------- JobStorage ------------------------------- *)
\* The storage is js = [jobs, objs]: jobs maps a job id to a reference into
\* objs, the ProcessJob instances in order of construction.

JobStorage_init == [jobs |-> <<>>, objs |-> <<>>]

JobStorage_create(js, job_id, data, t) ==
    LET job == [id |-> job_id, status |-> "queued", data |-> data, result |-> None,
                created_at |-> t, completed_at |-> None]
        ref == Len(js.objs) + 1
    IN  [js  |-> [jobs |-> DictSet(js.jobs, job_id, ref), objs |-> Append(js.objs, job)],
         ret |-> ref]

\* a reference, or None
JobStorage_get(js, job_id) == DictGet(js.jobs, job_id)

\* update_status, line 80: job.status = status
update_status_status(js, ref, status) ==
    [js EXCEPT !.objs[ref].status = status]

\* update_status, lines 81-82: if result is not None: job.result = result
update_status_result(js, ref, result) ==
    IF result # None THEN [js EXCEPT !.objs[ref].result = result] ELSE js

\* update_status, lines 83-84: if status == "completed": job.completed_at = now
update_status_completed_at(js, ref, status, t) ==
    IF status = "completed" THEN [js EXCEPT !.objs[ref].completed_at = Some(t)] ELSE js

RECURSIVE Join(_, _)
\* sep.join(items), as the sequence of its pieces
Join(items, sep) ==
    IF Len(items) <= 1 THEN items
    ELSE <<Head(items), sep>> \o Join(Tail(items), sep)

\* f"Processed {len(data)} items: {', '.join(data)}", as the sequence of its pieces
Summary(data) == <<"Processed ", Len(data), " items: ">> \o Join(data, ", ")

(* ------------------------------ state ---------------------------------- *)

task_storage == [tasks |-> tasks, next_id |-> next_id]

NoResp == [op |-> "none", code |-> 0, task_id |-> 0, req |-> None, body |-> <<>>]

job_storage == [jobs |-> jobs, objs |-> job_objs]

Init ==
    /\ tasks = TaskStorage_init.tasks
    /\ next_id = TaskStorage_init.next_id
    /\ jobs = JobStorage_init.jobs
    /\ job_objs = JobStorage_init.objs
    /\ runners = <<>>
    /\ now = 0
    /\ resp = NoResp
    /\ issued = <<>>
    /\ deleted = {}

\* time passes
Tick ==
    /\ now < MaxTime
    /\ now' = now + 1
    /\ UNCHANGED <<task_vars, job_vars, resp, hist_vars>>

(* -------------------------- task handlers ------------------------------ *)

create_task(title, description, status) ==
    /\ next_id <= MaxTasks
    /\ LET r == TaskStorage_create(task_storage, title, description, status, now)
       IN  /\ tasks' = r.st.tasks
           /\ next_id' = r.st.next_id
           /\ resp' = [op |-> "create_task", code |-> 201, task_id |-> 0,
                       req |-> None, body |-> <<r.ret>>]
           /\ issued' = Append(issued, r.ret.id)
    /\ UNCHANGED <<job_vars, now, deleted>>

list_tasks(status_filter) ==
    /\ IF /\ status_filter # None /\ status_filter # Some("")
          /\ status_filter[1] \notin {"pending", "in_progress", "completed"}
       THEN resp' = [op |-> "list_tasks", code |-> 400, task_id |-> 0,
                     req |-> status_filter, body |-> <<>>]
       ELSE resp' = [op |-> "list_tasks", code |-> 200, task_id |-> 0,
                     req |-> status_filter,
                     body |-> TaskStorage_get_all(task_storage, status_filter)]
    /\ UNCHANGED <<task_vars, job_vars, now, hist_vars>>

get_task(task_id) ==
    /\ LET task == TaskStorage_get(task_storage, task_id)
       IN  IF task = None
           THEN resp' = [op |-> "get_task", code |-> 404, task_id |-> task_id,
                         req |-> None, body |-> <<>>]
           ELSE resp' = [op |-> "get_task", code |-> 200, task_id |-> task_id,
                         req |-> None, body |-> task]
    /\ UNCHANGED <<task_vars, job_vars, now, hist_vars>>

update_task(task_id, title, description, status) ==
    /\ LET r == TaskStorage_update(task_storage, task_id, title, description, status, now)
       IN  /\ tasks' = r.st.tasks
           /\ next_id' = r.st.next_id
           /\ IF r.ret = None
              THEN resp' = [op |-> "update_task", code |-> 404, task_id |-> task_id,
                            req |-> None, body |-> <<>>]
              ELSE resp' = [op |-> "update_task", code |-> 200, task_id |-> task_id,
                            req |-> None, body |-> r.ret]
    /\ UNCHANGED <<job_vars, now, hist_vars>>

delete_task(task_id) ==
    /\ LET r == TaskStorage_delete(task_storage, task_id)
       IN  /\ tasks' = r.st.tasks
           /\ next_id' = r.st.next_id
           /\ IF ~r.ret
              THEN /\ resp' = [op |-> "delete_task", code |-> 404, task_id |-> task_id,
                               req |-> None, body |-> <<>>]
                   /\ deleted' = deleted
              ELSE /\ resp' = [op |-> "delete_task", code |-> 204, task_id |-> task_id,
                               req |-> None, body |-> <<>>]
                   /\ deleted' = deleted \cup {task_id}
    /\ UNCHANGED <<job_vars, now, issued>>

CreateTask == \E ti \in Titles, d \in Opt(Descriptions), s \in TaskStatuses :
                  create_task(ti, d, s)
ListTasks == \E f \in Opt(StatusFilters) : list_tasks(f)
GetTask == \E id \in TaskIds : get_task(id)
UpdateTask == \E id \in TaskIds, ti \in Opt(Titles), d \in Opt(Descriptions),
                 s \in Opt(TaskStatuses) : update_task(id, ti, d, s)
DeleteTask == \E id \in TaskIds : delete_task(id)

(* ----------------------- job handlers and runner ----------------------- *)

JobResp(op, code, job_id, body) ==
    [op |-> op, code |-> code, task_id |-> 0, req |-> Some(job_id), body |-> body]

\* POST /process: the job is stored and its runner is scheduled
start_background_job(token, data) ==
    /\ Len(runners) < MaxJobs
    /\ LET job_id == <<"job-", token>>
           r == JobStorage_create(job_storage, job_id, data, now)
       IN  /\ jobs' = r.js.jobs
           /\ job_objs' = r.js.objs
           /\ runners' = Append(runners, [job_id |-> job_id, data |-> data,
                                          pc |-> "scheduled", job |-> 0, result |-> None])
           /\ resp' = JobResp("start_background_job", 202, job_id, <<>>)
    /\ UNCHANGED <<task_vars, now, hist_vars>>

\* GET /jobs/{job_id}: the job as it is when the request is served
get_job_status(job_id) ==
    /\ LET job == JobStorage_get(job_storage, job_id)
       IN  IF job = None
           THEN resp' = JobResp("get_job_status", 404, job_id, <<>>)
           ELSE resp' = JobResp("get_job_status", 200, job_id, <<job_objs[job[1]]>>)
    /\ UNCHANGED <<task_vars, job_vars, now, hist_vars>>

\* process_job_background, line 114: update_status(job_id, "processing").
\* With result None and a status other than completed the call writes status only.
runner_processing(i) ==
    /\ runners[i].pc = "scheduled"
    /\ LET job == JobStorage_get(job_storage, runners[i].job_id)
           js == IF job = None THEN job_storage
                 ELSE update_status_completed_at(
                          update_status_result(
                              update_status_status(job_storage, job[1], "processing"),
                              job[1], None),
                          job[1], "processing", now)
       IN  /\ jobs' = js.jobs
           /\ job_objs' = js.objs
    /\ runners' = [runners EXCEPT ![i].pc = "sleeping"]
    /\ UNCHANGED <<task_vars, now, resp, hist_vars>>

\* lines 115-117 up to storage.py line 80: the sleep is over, the result is
\* computed, update_status(job_id, "completed", result) looks the job up and
\* writes its status
runner_completed_status(i) ==
    /\ runners[i].pc = "sleeping"
    /\ LET job == JobStorage_get(job_storage, runners[i].job_id)
           result == Some(Summary(runners[i].data))
       IN  IF job = None
           THEN /\ runners' = [runners EXCEPT ![i].pc = "done", ![i].result = result]
                /\ UNCHANGED <<jobs, job_objs>>
           ELSE LET js == update_status_status(job_storage, job[1], "completed")
                IN  /\ jobs' = js.jobs
                    /\ job_objs' = js.objs
                    /\ runners' = [runners EXCEPT ![i].pc = "write_result",
                                                  ![i].job = job[1],
                                                  ![i].result = result]
    /\ UNCHANGED <<task_vars, now, resp, hist_vars>>

\* storage.py lines 81-82 of the same call
runner_completed_result(i) ==
    /\ runners[i].pc = "write_result"
    /\ LET js == update_status_result(job_storage, runners[i].job, runners[i].result)
       IN  /\ jobs' = js.jobs
           /\ job_objs' = js.objs
    /\ runners' = [runners EXCEPT ![i].pc = "write_completed_at"]
    /\ UNCHANGED <<task_vars, now, resp, hist_vars>>

\* storage.py lines 83-84 of the same call, then the runner returns
runner_completed_at(i) ==
    /\ runners[i].pc = "write_completed_at"
    /\ LET js == update_status_completed_at(job_storage, runners[i].job, "completed", now)
       IN  /\ jobs' = js.jobs
           /\ job_objs' = js.objs
    /\ runners' = [runners EXCEPT ![i].pc = "done"]
    /\ UNCHANGED <<task_vars, now, resp, hist_vars>>

StartBackgroundJob == \E token \in JobTokens, data \in JobData :
                          start_background_job(token, data)
GetJobStatus == \E token \in JobTokens : get_job_status(<<"job-", token>>)
RunnerProcessing == \E i \in 1..Len(runners) : runner_processing(i)
RunnerCompletedStatus == \E i \in 1..Len(runners) : runner_completed_status(i)
RunnerCompletedResult == \E i \in 1..Len(runners) : runner_completed_result(i)
RunnerCompletedAt == \E i \in 1..Len(runners) : runner_completed_at(i)

\* submissions, status reads and the runners' steps in any interleaving
JobNext == \/ Tick \/ StartBackgroundJob \/ GetJobStatus \/ RunnerProcessing
           \/ RunnerCompletedStatus \/ RunnerCompletedResult \/ RunnerCompletedAt

SpecJobs == Init /\ [][JobNext]_vars

\* the task handlers, in any order, at one reading of the clock
TaskNext == CreateTask \/ ListTasks \/ GetTask \/ UpdateTask \/ DeleteTask

SpecTasks == Init /\ [][TaskNext]_vars

\* the handlers that write the task store, with time passing between them
ClockNext == Tick \/ CreateTask \/ UpdateTask \/ DeleteTask

SpecClock == Init /\ [][ClockNext]_vars

(* ===================== claims about the job pipeline =================== *)

JobRefs == 1..Len(job_objs)

\* no runner is between two writes of one update_status call
NoWriteInProgress ==
    \A i \in 1..Len(runners) : runners[i].pc \in {"scheduled", "sleeping", "done"}

JobStatusStep(a, b) ==
    \/ a = b
    \/ a = "queued" /\ b = "processing"
    \/ a = "processing" /\ b = "completed"

\* C1: a ProcessJob is created in queued, and the only changes of its status
\* that ever occur are queued -> processing and processing -> completed (no
\* skipped state, no step backwards, no change after completed).
C1_StatusLifecycle ==
    [][/\ \A o \in JobRefs : JobStatusStep(job_objs[o].status, job_objs'[o].status)
       /\ \A o \in 1..Len(job_objs') : o \notin JobRefs => job_objs'[o].status = "queued"
      ]_vars

\* C2: for every stored ProcessJob, completed_at is non-null if and only if
\* status is completed (read between calls of the store, that is, while no
\* update_status call is part-way through its writes).
C2_CompletedAtIffCompleted ==
    NoWriteInProgress =>
        \A k \in DictKeys(jobs) :
            LET job == job_objs[DictGet(jobs, k)[1]]
            IN  (job.completed_at # None) <=> (job.status = "completed")

\* C3: every accepted job is eventually completed with completed_at set and
\* result equal to the summary of its own data.  As the final result of the
\* runners: once every scheduled runner has returned, the job read back under
\* the id each submission was given is completed, has completed_at, and
\* carries the summary of that submission's data, items in their order.
C3_AllRunnersDoneAllJobsCompleted ==
    (\A i \in 1..Len(runners) : runners[i].pc = "done") =>
        \A i \in 1..Len(runners) :
            LET job == job_objs[JobStorage_get(job_storage, runners[i].job_id)[1]]
            IN  /\ job.status = "completed"
                /\ job.completed_at # None
                /\ job.result = Some(Summary(runners[i].data))

\* C4: every status read of an existing job observes either status queued or
\* processing with no result, or status completed with a result.
C4_ReadNeverTorn ==
    (resp.op = "get_job_status" /\ resp.code = 200) =>
        LET job == resp.body[1]
        IN  \/ job.status \in {"queued", "processing"} /\ job.result = None
            \/ job.status = "completed" /\ job.result # None

\* C5: job ids are unique and jobs are never replaced: every job ever created
\* is still the job stored under its id (so it is retrievable with its
\* original data and created_at), and a runner writes only to the job it was
\* scheduled for.
C5_JobsUniqueNeverReplaced ==
    /\ \A o \in JobRefs : JobStorage_get(job_storage, job_objs[o].id) = Some(o)
    /\ \A i \in 1..Len(runners) : runners[i].job \in {0, i}

(* ====================== claims about the task store ==================== *)

StoredTasks == {tasks[i].value : i \in 1..Len(tasks)}

\* C6: task ids are assigned sequentially from 1, strictly increasing and
\* never reused (issued is the sequence of ids createTask has returned, also
\* for tasks deleted since); every stored task's id is the key it is stored
\* under; the task just created is in the unfiltered list.
C6_SequentialIds ==
    /\ \A k \in 1..Len(issued) : issued[k] = k
    /\ \A i \in 1..Len(tasks) : tasks[i].value.id = tasks[i].key
    /\ resp.op = "create_task" =>
           /\ resp.body[1].id = issued[Len(issued)]
           /\ \A k \in 1..(Len(issued) - 1) : issued[k] < resp.body[1].id
           /\ \E i \in 1..Len(TaskStorage_get_all(task_storage, None)) :
                  TaskStorage_get_all(task_storage, None)[i] = resp.body[1]

\* a create that follows a delete gets a fresh id, not the freed one
C6_Witness ==
    /\ resp.op = "create_task"
    /\ resp.body[1].id = 2
    /\ 1 \in deleted
    /\ Len(tasks) = 1

\* C7: updateTask on an existing id replaces exactly the provided fields among
\* title, description and status and sets updated_at to the current time, which
\* is >= its previous value; fields not provided, id and created_at, every
\* other task (and the order of the tasks), next_id and the job store are
\* unchanged.
C7_UpdateFrame ==
    [][\A id \in DictKeys(tasks), ti \in Opt(Titles), d \in Opt(Descriptions),
          s \in Opt(TaskStatuses) :
          (resp'.op = "update_task" /\ resp'.task_id = id
             /\ update_task(id, ti, d, s)) =>
              LET old == DictGet(tasks, id)[1]
                  new == DictGet(tasks', id)[1]
              IN  /\ DictHas(tasks', id)
                  /\ new.title = (IF ti = None THEN old.title ELSE ti[1])
                  /\ new.description = (IF d = None THEN old.description ELSE d)
                  /\ new.status = (IF s = None THEN old.status ELSE s[1])
                  /\ new.updated_at = now
                  /\ new.updated_at >= old.updated_at
                  /\ new.id = old.id
                  /\ new.created_at = old.created_at
                  /\ Len(tasks') = Len(tasks)
                  /\ \A i \in 1..Len(tasks) :
                         /\ tasks'[i].key = tasks[i].key
                         /\ tasks[i].key # id => tasks'[i] = tasks[i]
                  /\ next_id' = next_id
                  /\ UNCHANGED job_vars
                  /\ resp'.code = 200
                  /\ resp'.body = <<new>>
      ]_vars

\* task 1 was updated later than it was created, with its title and description
\* as created while its status changed, next to an untouched task 2
C7_Witness ==
    /\ resp.op = "update_task" /\ resp.code = 200 /\ resp.task_id = 1
    /\ Len(tasks) = 2
    /\ LET t1 == DictGet(tasks, 1)[1]
           t2 == DictGet(tasks, 2)[1]
       IN  /\ t1.created_at = 0 /\ t1.updated_at = 1
           /\ t1.title = "T" /\ t1.description = Some("d") /\ t1.status = "completed"
           /\ t2.created_at = 0 /\ t2.updated_at = 0

\* C8: deleteTask(id) removes exactly that task and reports success when the
\* id is present, and reports NotFound and changes nothing when it is absent;
\* once an id has been deleted it is absent in every later state, and getTask,
\* updateTask and another deleteTask on it yield NotFound.
C8_Delete ==
    /\ [](\A id \in deleted : TaskStorage_get(task_storage, id) = None)
    /\ []((resp.op \in {"get_task", "update_task"} /\ resp.task_id \in deleted)
              => resp.code = 404)
    /\ [][\A id \in TaskIds :
              delete_task(id) =>
                  IF DictHas(tasks, id)
                  THEN /\ resp'.code = 204
                       /\ tasks' = SelectSeq(tasks, LAMBDA e : e.key # id)
                       /\ Len(tasks') = Len(tasks) - 1
                       /\ next_id' = next_id
                  ELSE /\ resp'.code = 404
                       /\ UNCHANGED <<tasks, next_id>>
                       /\ (id \in deleted => deleted' = deleted)
          ]_vars

\* task 1 was deleted, task 2 is stored, and a later delete of 1 is NotFound
C8_Witness ==
    /\ 1 \in deleted
    /\ DictHas(tasks, 2)
    /\ resp.op = "delete_task" /\ resp.task_id = 1 /\ resp.code = 404

\* C9: a supplied status filter outside {pending, in_progress, completed},
\* the empty string included, is rejected as a client error and never
\* answered with a task list.
C9_InvalidFilterRejected ==
    (resp.op = "list_tasks" /\ resp.req # None /\ resp.req[1] \notin TaskStatuses)
        => resp.code = 400

\* C10: listTasks with a filter s in {pending, in_progress, completed} returns
\* exactly the stored tasks whose status is s, and with no filter all stored
\* tasks, each once and in the order of creation (ids are issued in that order).
C10_ListExactInOrder ==
    (/\ resp.op = "list_tasks" /\ resp.code = 200
     /\ (resp.req = None \/ resp.req[1] \in TaskStatuses)) =>
        LET body == resp.body
            want == IF resp.req = None THEN StoredTasks
                    ELSE {t \in StoredTasks : t.status = resp.req[1]}
        IN  /\ {body[i] : i \in 1..Len(body)} = want
            /\ \A i, j \in 1..Len(body) : i < j => body[i].id < body[j].id

\* the first task was updated to pending after the second was created; the
\* pending list holds both, first before second, and leaves no other out
C10_Witness ==
    /\ resp.op = "list_tasks" /\ resp.code = 200 /\ resp.req = Some("pending")
    /\ Len(resp.body) = 2
    /\ resp.body[1].id = 1 /\ resp.body[2].id = 2
    /\ resp.body[1].title = "U"

====
